---- MODULE Spec2Model ----
(***************************************************************************)
(* Tic-Tac-Toe core: board rules (utils/gameLogic.js) and the move         *)
(* selector (utils/ai.js).                                                 *)
(*                                                                         *)
(* A board is a function from 0..n-1 to cells, the JavaScript array with   *)
(* its own indices.  A cell is null, "X" or "O".                           *)
(***************************************************************************)
EXTENDS Integers, Sequences, FiniteSets, TLC

VARIABLES board, aiMark, difficulty, op, arg, ret,
          xIsNext, rendered, heap, stack

\* The state of the App component beside its board: the flag xIsNext and
\* the values its last render handed to the click handler.
uiVars == <<xIsNext, rendered>>
\* The arrays and the call stack of a getAIMove call that is under way.
simVars == <<heap, stack>>

vars == <<board, aiMark, difficulty, op, arg, ret, xIsNext, rendered, heap, stack>>

----------------------------------------------------------------------------
(* Values *)

null == "null"
undefined == "undefined"
Marks == {"X", "O"}
Cell == {null} \cup Marks

\* The board length every function of the core checks against.
BoardSize == 9

\* Longest board handed to validateMove.
MaxLen == 10
\* Most marks on a board handed to validateMove.
MaxMarks == 3
\* Largest integer index handed to validateMove.
MaxIndex == 9
\* Math.random() is modelled as k / RandDen for k in 0..RandDen-1.
RandDen == 12
\* Most empty cells of a board on which getAIMove is followed step by step
\* (the empty board apart).
MaxSimEmpty == 2

BoardsOfLen(n) == [0..(n - 1) -> Cell]
Boards9 == BoardsOfLen(BoardSize)
marksOn(b) == Cardinality({i \in DOMAIN b : b[i] # null})
BoardsUpToMaxLen ==
  UNION {{b \in BoardsOfLen(n) : marksOn(b) <= MaxMarks} : n \in 0..MaxLen}

length(b) == Cardinality(DOMAIN b)

\* A JavaScript value used as an index: a number n/2 (twice = n), NaN, or a
\* string holding a decimal integer.
Num(n2) == [kind |-> "number", twice |-> n2]
Int2Idx(i) == Num(2 * i)
NaNIdx == [kind |-> "NaN", twice |-> 0]
StrIdx(i) == [kind |-> "string", twice |-> 2 * i]
Indices == {Num(n2) : n2 \in (-2)..(2 * MaxIndex)} \cup {NaNIdx, StrIdx(4)}

IsInteger(index) == index.kind = "number" /\ index.twice % 2 = 0

\* board[i] for an integer i: undefined outside the array.
at(b, i) == IF i \in DOMAIN b THEN b[i] ELSE undefined

\* board[index] for a JavaScript number: a fractional index or NaN names no
\* element of the array.
get(b, index) ==
  IF IsInteger(index) THEN at(b, index.twice \div 2) ELSE undefined

----------------------------------------------------------------------------
(* utils/gameLogic.js *)

initBoard == [i \in 0..(BoardSize - 1) |-> null]

\* validateMove with the occupancy test written board[index] != null.
validateMove_looseNull(b, index) ==
  IF length(b) # BoardSize
    THEN [valid |-> FALSE, reason |-> "Invalid board"]
  ELSE IF \/ index.kind \notin {"number", "NaN"}
          \/ (index.kind = "number" /\ (index.twice < 0 \/ index.twice > 2 * 8))
    THEN [valid |-> FALSE, reason |-> "Invalid index"]
  ELSE IF get(b, index) \notin {null, undefined}
    THEN [valid |-> FALSE, reason |-> "Cell occupied"]
  ELSE [valid |-> TRUE, reason |-> undefined]

validateMove(b, index) ==
  IF length(b) # BoardSize
    THEN [valid |-> FALSE, reason |-> "Invalid board"]
  ELSE IF \/ index.kind \notin {"number", "NaN"}
          \/ (index.kind = "number" /\ (index.twice < 0 \/ index.twice > 2 * 8))
    THEN [valid |-> FALSE, reason |-> "Invalid index"]
  ELSE IF get(b, index) # null
    THEN [valid |-> FALSE, reason |-> "Cell occupied"]
  ELSE [valid |-> TRUE, reason |-> undefined]

\* board[a] && board[a] === board[b] && board[b] === board[c]
lineMatched(b, a1, a2, a3) == b[a1] # null /\ b[a1] = b[a2] /\ b[a2] = b[a3]

\* calculateWinner whose table of lines lacks the diagonal 2-4-6.
calculateWinner_noAntiDiagonal(b) ==
  IF lineMatched(b, 0, 1, 2) THEN b[0]
  ELSE IF lineMatched(b, 3, 4, 5) THEN b[3]
  ELSE IF lineMatched(b, 6, 7, 8) THEN b[6]
  ELSE IF lineMatched(b, 0, 3, 6) THEN b[0]
  ELSE IF lineMatched(b, 1, 4, 7) THEN b[1]
  ELSE IF lineMatched(b, 2, 5, 8) THEN b[2]
  ELSE IF lineMatched(b, 0, 4, 8) THEN b[0]
  ELSE null

\* The loop over the constant table lines, one test per line in the table's
\* order; every caller passes a board of BoardSize cells.
calculateWinner(b) ==
  IF lineMatched(b, 0, 1, 2) THEN b[0]
  ELSE IF lineMatched(b, 3, 4, 5) THEN b[3]
  ELSE IF lineMatched(b, 6, 7, 8) THEN b[6]
  ELSE IF lineMatched(b, 0, 3, 6) THEN b[0]
  ELSE IF lineMatched(b, 1, 4, 7) THEN b[1]
  ELSE IF lineMatched(b, 2, 5, 8) THEN b[2]
  ELSE IF lineMatched(b, 0, 4, 8) THEN b[0]
  ELSE IF lineMatched(b, 2, 4, 6) THEN b[2]
  ELSE null

\* isDraw without the test of the winner.
isDraw_fullOnly(b) == \A i \in DOMAIN b : b[i] # null

isDraw(b) == calculateWinner(b) = null /\ \A i \in DOMAIN b : b[i] # null

----------------------------------------------------------------------------
(* utils/ai.js *)

\* "let bestMove = null": the move of a node that has none.
noMove == -1
\* Infinity, above every score.
Infinity == 1000

\* The values of the loop counter i, 0 <= i < board.length, in the order the
\* loop takes them, for the longest board of the model.
loopIndices == [i \in 1..MaxLen |-> i - 1]

\* emptyCells collecting the cells that are not null.
emptyCells_occupied(b) ==
  SelectSeq(loopIndices, LAMBDA i : i \in DOMAIN b /\ b[i] # null)

emptyCells(b) ==
  SelectSeq(loopIndices, LAMBDA i : i \in DOMAIN b /\ b[i] = null)

\* terminalScore with the two winning scores exchanged.
terminalScore_signSwapped(b, ai) ==
  LET win == calculateWinner(b)
  IN IF win = ai THEN [terminal |-> TRUE, score |-> -10]
     ELSE IF win # null /\ win # ai THEN [terminal |-> TRUE, score |-> 10]
     ELSE IF isDraw(b) THEN [terminal |-> TRUE, score |-> 0]
     ELSE [terminal |-> FALSE, score |-> 0]

\* A number score, or null (terminal = FALSE) for a board still in play.
terminalScore(b, ai) ==
  LET win == calculateWinner(b)
  IN IF win = ai THEN [terminal |-> TRUE, score |-> 10]
     ELSE IF win # null /\ win # ai THEN [terminal |-> TRUE, score |-> -10]
     ELSE IF isDraw(b) THEN [terminal |-> TRUE, score |-> 0]
     ELSE [terminal |-> FALSE, score |-> 0]

\* The mark handed to the recursive call: aiMark === 'X' ? 'O' : 'X'.
nextMark(ai, cur) == IF ai = "X" THEN "O" ELSE "X"

RECURSIVE minimax(_, _, _), maximize(_, _, _, _, _, _, _),
          minimize(_, _, _, _, _, _, _)

\* The maximize loop replacing its best move on an equal score as well.
maximize_lastBest(b, ai, cur, avail, k, bestScore, bestMove) ==
  IF k > Len(avail) THEN [score |-> bestScore, move |-> bestMove]
  ELSE LET idx == avail[k]
           next == [b EXCEPT ![idx] = cur]
           score == minimax(next, ai, nextMark(ai, cur)).score
       IN IF score >= bestScore
            THEN maximize(b, ai, cur, avail, k + 1, score, idx)
            ELSE maximize(b, ai, cur, avail, k + 1, bestScore, bestMove)

\* The loop of the maximize branch from position k of avail on.
maximize(b, ai, cur, avail, k, bestScore, bestMove) ==
  IF k > Len(avail) THEN [score |-> bestScore, move |-> bestMove]
  ELSE LET idx == avail[k]
           next == [b EXCEPT ![idx] = cur]
           score == minimax(next, ai, nextMark(ai, cur)).score
       IN IF score > bestScore
            THEN maximize(b, ai, cur, avail, k + 1, score, idx)
            ELSE maximize(b, ai, cur, avail, k + 1, bestScore, bestMove)

\* The loop of the minimize branch from position k of avail on.
minimize(b, ai, cur, avail, k, bestScore, bestMove) ==
  IF k > Len(avail) THEN [score |-> bestScore, move |-> bestMove]
  ELSE LET idx == avail[k]
           next == [b EXCEPT ![idx] = cur]
           score == minimax(next, ai, nextMark(ai, cur)).score
       IN IF score < bestScore
            THEN minimize(b, ai, cur, avail, k + 1, score, idx)
            ELSE minimize(b, ai, cur, avail, k + 1, bestScore, bestMove)

minimax(b, ai, cur) ==
  LET term == terminalScore(b, ai)
      avail == emptyCells(b)
  IN IF term.terminal THEN [score |-> term.score, move |-> noMove]
     ELSE IF Len(avail) = 0 THEN [score |-> 0, move |-> noMove]
     ELSE IF cur = ai
       THEN maximize(b, ai, cur, avail, 1, -Infinity, noMove)
       ELSE minimize(b, ai, cur, avail, 1, Infinity, noMove)

\* board.filter((c) => c !== null).length % 2 === 0 ? 'X' : 'O'
currentMarkOf(b) ==
  IF Cardinality({i \in DOMAIN b : b[i] # null}) % 2 = 0 THEN "X" ELSE "O"

\* The random index drawn over n - 1 cells instead of n.
randomIndex_short(k, n) == (k * (n - 1)) \div RandDen

\* Math.floor(Math.random() * n) for Math.random() = k / RandDen.
randomIndex(k, n) == (k * n) \div RandDen

Threw(msg) == [error |-> msg, index |-> noMove, fallback |-> FALSE]
Returned(i) == [error |-> "none", index |-> i, fallback |-> FALSE]
\* The return of the "Fallback safety" branch: if (move == null).
ReturnedFallback(i) == [error |-> "none", index |-> i, fallback |-> TRUE]

\* getAIMove without the check that the game is over.
getAIMove_noGameOverCheck(b, ai, diff, k) ==
  IF length(b) # BoardSize THEN Threw("Invalid board")
  ELSE IF ai # "X" /\ ai # "O" THEN Threw("Invalid aiMark")
  ELSE IF diff # "random" /\ diff # "optimal" THEN Threw("Invalid difficulty")
  ELSE LET available == emptyCells(b)
       IN IF Len(available) = 0 THEN Threw("No available moves")
          ELSE IF diff = "random"
            THEN Returned(available[randomIndex(k, Len(available)) + 1])
          ELSE LET move == minimax(b, ai, currentMarkOf(b)).move
               IN IF move = noMove THEN ReturnedFallback(available[1])
                  ELSE Returned(move)

\* getAIMove with Math.random() = k / RandDen.
getAIMove(b, ai, diff, k) ==
  IF length(b) # BoardSize THEN Threw("Invalid board")
  ELSE IF ai # "X" /\ ai # "O" THEN Threw("Invalid aiMark")
  ELSE IF diff # "random" /\ diff # "optimal" THEN Threw("Invalid difficulty")
  ELSE IF calculateWinner(b) # null \/ isDraw(b)
    THEN Threw("Game is already over")
  ELSE LET available == emptyCells(b)
       IN IF Len(available) = 0 THEN Threw("No available moves")
          ELSE IF diff = "random"
            THEN Returned(available[randomIndex(k, Len(available)) + 1])
          ELSE LET move == minimax(b, ai, currentMarkOf(b)).move
               IN IF move = noMove THEN ReturnedFallback(available[1])
                  ELSE Returned(move)

----------------------------------------------------------------------------
(* Calls of the board rules on drawn inputs *)

\* What the calls returned: validateMove's result, calculateWinner's mark,
\* isDraw's flag and getAIMove's outcome.
NoRet ==
  [validate |-> [valid |-> FALSE, reason |-> undefined],
   winner |-> null,
   draw |-> FALSE,
   ai |-> [error |-> "none", index |-> noMove, fallback |-> FALSE]]
NoArg == Num(0)

\* An App that no specification of the core functions uses: its first render.
UiIdle == xIsNext = TRUE /\ rendered = [board |-> initBoard, xIsNext |-> TRUE]
\* No getAIMove call under way.
SimIdle == heap = << >> /\ stack = << >>

CallCalculateWinner ==
  /\ op = "none"
  /\ op' = "calculateWinner"
  /\ ret' = [NoRet EXCEPT !.winner = calculateWinner(board)]
  /\ UNCHANGED <<board, aiMark, difficulty, arg>>
  /\ UNCHANGED <<uiVars, simVars>>

CallIsDraw ==
  /\ op = "none"
  /\ op' = "isDraw"
  /\ ret' = [NoRet EXCEPT !.draw = isDraw(board)]
  /\ UNCHANGED <<board, aiMark, difficulty, arg>>
  /\ UNCHANGED <<uiVars, simVars>>

CallValidateMove(index) ==
  /\ op = "none"
  /\ op' = "validateMove"
  /\ arg' = index
  /\ ret' = [NoRet EXCEPT !.validate = validateMove(board, index)]
  /\ UNCHANGED <<board, aiMark, difficulty>>
  /\ UNCHANGED <<uiVars, simVars>>

InitRules ==
  /\ board \in Boards9
  /\ aiMark = "X"
  /\ difficulty = "random"
  /\ op = "none"
  /\ arg = NoArg
  /\ ret = NoRet
  /\ UiIdle
  /\ SimIdle

NextRules == CallCalculateWinner \/ CallIsDraw

SpecRules == InitRules /\ [][NextRules]_vars

InitValidate ==
  /\ board \in BoardsUpToMaxLen
  /\ aiMark = "X"
  /\ difficulty = "random"
  /\ op = "none"
  /\ arg = NoArg
  /\ ret = NoRet
  /\ UiIdle
  /\ SimIdle

NextValidate == \E index \in Indices : CallValidateMove(index)

SpecValidate == InitValidate /\ [][NextValidate]_vars

----------------------------------------------------------------------------
(* Calls of the move selector on drawn inputs *)

\* The draws of Math.random() a call can make: none under 'optimal'.
RandomDraws(diff) == IF diff = "random" THEN 0..(RandDen - 1) ELSE {0}

CallGetAIMove ==
  /\ op = "none"
  /\ op' = "getAIMove"
  /\ \E k \in RandomDraws(difficulty) :
       ret' = [NoRet EXCEPT !.ai = getAIMove(board, aiMark, difficulty, k)]
  /\ UNCHANGED <<board, aiMark, difficulty, arg>>
  /\ UNCHANGED <<uiVars, simVars>>

\* Arrays that are not boards of nine cells.
OtherLengthBoards == {b \in BoardsUpToMaxLen : length(b) # BoardSize}

InitAI ==
  /\ board \in Boards9 \cup OtherLengthBoards
  /\ aiMark \in Marks \cup {"Z"}
  /\ difficulty \in {"random", "optimal", "hard"}
  /\ op = "none"
  /\ arg = NoArg
  /\ ret = NoRet
  /\ UiIdle
  /\ SimIdle

NextAI == CallGetAIMove

SpecAI == InitAI /\ [][NextAI]_vars

\* The calls with difficulty 'random' alone.
InitRandom ==
  /\ board \in Boards9
  /\ aiMark \in Marks
  /\ difficulty = "random"
  /\ op = "none"
  /\ arg = NoArg
  /\ ret = NoRet
  /\ UiIdle
  /\ SimIdle

SpecRandom == InitRandom /\ [][NextAI]_vars

\* The calls with difficulty 'optimal' made when it is aiMark's turn by the
\* parity of the board.
InitOwnTurn ==
  /\ board \in Boards9
  /\ aiMark = currentMarkOf(board)
  /\ difficulty = "optimal"
  /\ op = "none"
  /\ arg = NoArg
  /\ ret = NoRet
  /\ UiIdle
  /\ SimIdle

SpecOwnTurn == InitOwnTurn /\ [][NextAI]_vars

----------------------------------------------------------------------------
(* A game from the empty board: the side aiMark plays getAIMove with         *)
(* difficulty 'optimal', the other side plays any legal move.                *)

otherMark(m) == IF m = "X" THEN "O" ELSE "X"

\* A game that is never over.
gameOver_never(b) == FALSE

\* gameOver = !!winner || draw
gameOver(b) == calculateWinner(b) # null \/ isDraw(b)

\* next = board.slice(); next[index] = mark
applyMove(b, i, mark) == [b EXCEPT ![i] = mark]

AIMove ==
  /\ ~gameOver(board)
  /\ currentMarkOf(board) = aiMark
  /\ \E i \in {getAIMove(board, aiMark, difficulty, 0).index} :
       /\ board' = applyMove(board, i, aiMark)
       /\ arg' = Int2Idx(i)
  /\ op' = "aiMove"
  /\ UNCHANGED <<aiMark, difficulty, ret>>
  /\ UNCHANGED <<uiVars, simVars>>

OpponentMove(i) ==
  /\ ~gameOver(board)
  /\ currentMarkOf(board) = otherMark(aiMark)
  /\ validateMove(board, Int2Idx(i)).valid
  /\ board' = applyMove(board, i, otherMark(aiMark))
  /\ arg' = Int2Idx(i)
  /\ op' = "opponentMove"
  /\ UNCHANGED <<aiMark, difficulty, ret>>
  /\ UNCHANGED <<uiVars, simVars>>

InitGame ==
  /\ board = initBoard
  /\ aiMark \in Marks
  /\ difficulty = "optimal"
  /\ op = "none"
  /\ arg = NoArg
  /\ ret = NoRet
  /\ UiIdle
  /\ SimIdle

NextGame == AIMove \/ \E i \in 0..(BoardSize - 1) : OpponentMove(i)

SpecGame == InitGame /\ [][NextGame]_vars

-----------------------------------------------------------------------------
(* The App component: the state (board, xIsNext) and the values of its last  *)
(* render, which the handlers and the squares' disabled attributes use.      *)

\* What a render captures of the state.
render(b, x) == [board |-> b, xIsNext |-> x]

\* Board: disabled={!!cell || gameOver}
disabled(r, i) == r.board[i] # null \/ gameOver(r.board)

\* handleSquareClick(index) of the render r, run on the state (b, x):
\* setBoard(next) replaces the board, setXIsNext((prev) => !prev) toggles
\* the flag of the state.
handleSquareClick(r, b, x, i) ==
  LET validation == validateMove(r.board, Int2Idx(i))
      currentPlayer == IF r.xIsNext THEN "X" ELSE "O"
  IN IF ~validation.valid THEN [board |-> b, xIsNext |-> x]
     ELSE IF gameOver(r.board) THEN [board |-> b, xIsNext |-> x]
     ELSE [board |-> applyMove(r.board, i, currentPlayer), xIsNext |-> ~x]

\* A click on square i that reaches the state although the cell is occupied
\* or the game is over.
clickSquare_unchecked(r, b, x, i) ==
  [board |-> applyMove(r.board, i, IF r.xIsNext THEN "X" ELSE "O"),
   xIsNext |-> ~x]

\* A click on square i of the render r: a disabled button runs no handler.
clickSquare(r, b, x, i) ==
  IF disabled(r, i) THEN [board |-> b, xIsNext |-> x]
  ELSE handleSquareClick(r, b, x, i)

\* handleRestart: setBoard(initBoard()); setXIsNext(true)
handleRestart == [board |-> initBoard, xIsNext |-> TRUE]

\* A click on square i, and the render that follows it.
ClickSquare(i) ==
  /\ \E s \in {clickSquare(rendered, board, xIsNext, i)} :
       /\ board' = s.board
       /\ xIsNext' = s.xIsNext
       /\ rendered' = render(s.board, s.xIsNext)
  /\ op' = IF disabled(rendered, i) THEN "clickDisabled" ELSE "click"
  /\ arg' = Int2Idx(i)
  /\ UNCHANGED <<aiMark, difficulty, ret, simVars>>

\* A click on Restart, and the render that follows it.
ClickRestart ==
  /\ board' = handleRestart.board
  /\ xIsNext' = handleRestart.xIsNext
  /\ rendered' = render(handleRestart.board, handleRestart.xIsNext)
  /\ op' = "restart"
  /\ arg' = NoArg
  /\ UNCHANGED <<aiMark, difficulty, ret, simVars>>

\* Time passes (jest.advanceTimersByTime): App registers no timer, so no
\* callback runs.
AdvanceTimers ==
  /\ op' = "advanceTimers"
  /\ arg' = NoArg
  /\ UNCHANGED <<board, aiMark, difficulty, ret, uiVars, simVars>>

InitUI ==
  /\ board = initBoard
  /\ xIsNext = TRUE
  /\ rendered = render(board, xIsNext)
  /\ aiMark = "O"
  /\ difficulty = "optimal"
  /\ op = "none"
  /\ arg = NoArg
  /\ ret = NoRet
  /\ SimIdle

NextUI ==
  \/ \E i \in 0..(BoardSize - 1) : ClickSquare(i)
  \/ ClickRestart
  \/ AdvanceTimers

SpecUI == InitUI /\ [][NextUI]_vars

\* The App when events can be handled before the render of the state the
\* previous event left: the handler of the last render runs again.
ClickSquareBeforeRender(i) ==
  /\ \E s \in {clickSquare(rendered, board, xIsNext, i)} :
       /\ board' = s.board
       /\ xIsNext' = s.xIsNext
  /\ op' = IF disabled(rendered, i) THEN "clickDisabled" ELSE "click"
  /\ arg' = NoArg
  /\ UNCHANGED <<aiMark, difficulty, ret, rendered, simVars>>

\* React renders the state the handled events left.
Render ==
  /\ rendered # render(board, xIsNext)
  /\ rendered' = render(board, xIsNext)
  /\ op' = "render"
  /\ arg' = NoArg
  /\ UNCHANGED <<board, aiMark, difficulty, ret, xIsNext, simVars>>

NextBatched ==
  \/ \E i \in 0..(BoardSize - 1) : ClickSquareBeforeRender(i)
  \/ Render
  \/ ClickRestart

SpecBatched == InitUI /\ [][NextBatched]_vars

-----------------------------------------------------------------------------
(* getAIMove with difficulty 'optimal' step by step: the arrays it reads and *)
(* writes are cells of heap, named by their position; stack holds the calls  *)
(* of minimax under way, the innermost last. heap[1] is the caller's array.  *)

\* cloneBoard returning the array it was given.
cloneBoard_sameArray(h, a) == [heap |-> h, ref |-> a]

\* cloneBoard: board.slice(), a new array with the same cells.
cloneBoard(h, a) == [heap |-> Append(h, h[a]), ref |-> Len(h) + 1]

\* The entry of minimax(board, aiMark, currentMark) up to its loop: a call
\* that returns at once has no candidate to try.
enterMinimax(h, a, ai, cur) ==
  LET term == terminalScore(h[a], ai)
      avail == emptyCells(h[a])
  IN [board |-> a, currentMark |-> cur, k |-> 1, bestMove |-> noMove,
      avail |-> IF term.terminal THEN << >> ELSE avail,
      bestScore |-> IF term.terminal THEN term.score
                    ELSE IF Len(avail) = 0 THEN 0
                    ELSE IF cur = ai THEN -Infinity ELSE Infinity]

\* The loop body after the recursive call returned score for avail[k].
afterCall(f, ai, score) ==
  LET idx == f.avail[f.k]
      better == IF f.currentMark = ai THEN score > f.bestScore
                ELSE score < f.bestScore
  IN IF better
       THEN [f EXCEPT !.k = @ + 1, !.bestScore = score, !.bestMove = idx]
       ELSE [f EXCEPT !.k = @ + 1]

top == stack[Len(stack)]
loopDone(f) == f.k > Len(f.avail)

\* The checks of getAIMove before it selects a move.
precheck(b, ai, diff) ==
  IF length(b) # BoardSize THEN Threw("Invalid board")
  ELSE IF ai # "X" /\ ai # "O" THEN Threw("Invalid aiMark")
  ELSE IF diff # "random" /\ diff # "optimal" THEN Threw("Invalid difficulty")
  ELSE IF calculateWinner(b) # null \/ isDraw(b)
    THEN Threw("Game is already over")
  ELSE IF Len(emptyCells(b)) = 0 THEN Threw("No available moves")
  ELSE Returned(noMove)

\* getAIMove(board, aiMark, 'optimal') up to its call of minimax.
StartGetAIMove ==
  /\ op = "none"
  /\ heap' = <<board>>
  /\ \E r \in {precheck(board, aiMark, difficulty)} :
       IF r.error # "none"
         THEN /\ ret' = [NoRet EXCEPT !.ai = r]
              /\ op' = "getAIMove"
              /\ stack' = << >>
         ELSE /\ ret' = NoRet
              /\ op' = "minimax"
              /\ stack' = <<enterMinimax(heap', 1, aiMark, currentMarkOf(board))>>
  /\ UNCHANGED <<board, aiMark, difficulty, arg, uiVars>>

\* next = cloneBoard(board); next[idx] = currentMark; minimax(next, ...)
MinimaxCall ==
  /\ op = "minimax"
  /\ ~loopDone(top)
  /\ \E c \in {cloneBoard(heap, top.board)} :
       /\ heap' = [c.heap EXCEPT ![c.ref][top.avail[top.k]] = top.currentMark]
       /\ stack' = Append(stack, enterMinimax(heap', c.ref, aiMark,
                                              nextMark(aiMark, top.currentMark)))
  /\ UNCHANGED <<board, aiMark, difficulty, op, arg, ret, uiVars>>

\* return { score, move } to the loop of the calling minimax; the callee's
\* array is no longer referenced.
MinimaxReturn ==
  /\ op = "minimax"
  /\ Len(stack) > 1
  /\ loopDone(top)
  /\ stack' = [SubSeq(stack, 1, Len(stack) - 1) EXCEPT
                 ![Len(stack) - 1] = afterCall(@, aiMark, top.bestScore)]
  /\ heap' = IF top.board = stack[Len(stack) - 1].board THEN heap
             ELSE SubSeq(heap, 1, Len(heap) - 1)
  /\ UNCHANGED <<board, aiMark, difficulty, op, arg, ret, uiVars>>

\* The outermost minimax returns to getAIMove, which returns its move or
\* falls back to the first empty cell.
FinishGetAIMove ==
  /\ op = "minimax"
  /\ Len(stack) = 1
  /\ loopDone(top)
  /\ ret' = [NoRet EXCEPT !.ai =
               IF top.bestMove = noMove
                 THEN ReturnedFallback(emptyCells(heap[1])[1])
               ELSE Returned(top.bestMove)]
  /\ op' = "getAIMove"
  /\ stack' = << >>
  /\ UNCHANGED <<board, aiMark, difficulty, arg, heap, uiVars>>

\* The boards getAIMove is stepped on: the empty board and every board with
\* at most MaxSimEmpty empty cells.
SimBoards ==
  {initBoard} \cup {b \in Boards9 : Len(emptyCells(b)) <= MaxSimEmpty}

InitSteps ==
  /\ board \in SimBoards
  /\ aiMark \in Marks
  /\ difficulty = "optimal"
  /\ op = "none"
  /\ arg = NoArg
  /\ ret = NoRet
  /\ UiIdle
  /\ SimIdle

NextSteps ==
  StartGetAIMove \/ MinimaxCall \/ MinimaxReturn \/ FinishGetAIMove

SpecSteps == InitSteps /\ [][NextSteps]_vars

\* A call under way goes on: JavaScript runs getAIMove to completion.
SpecStepsFair == SpecSteps /\ WF_vars(NextSteps)

----------------------------------------------------------------------------
(* Vocabulary of the properties *)

Cells == 0..(BoardSize - 1)
emptySet(b) == {i \in DOMAIN b : b[i] = null}

\* The cells whose placement completes a line for mark m at once.
winningCells(b, m) ==
  {i \in emptySet(b) : calculateWinner(applyMove(b, i, m)) = m}

\* The eight lines in the order rows top-to-bottom, columns left-to-right,
\* diagonal 0-4-8, diagonal 2-4-6.
rowLine(r) == <<3 * r, 3 * r + 1, 3 * r + 2>>
colLine(c) == <<c, c + 3, c + 6>>
LinesInOrder ==
  <<rowLine(0), rowLine(1), rowLine(2), colLine(0), colLine(1), colLine(2),
    <<0, 4, 8>>, <<2, 4, 6>>>>
lineHeld(b, l) == b[l[1]] \in Marks /\ b[l[2]] = b[l[1]] /\ b[l[3]] = b[l[1]]
heldLines(b) == {k \in DOMAIN LinesInOrder : lineHeld(b, LinesInOrder[k])}
firstHeld(b) == CHOOSE k \in heldLines(b) : \A j \in heldLines(b) : k <= j
lineCells(k) == {LinesInOrder[k][1], LinesInOrder[k][2], LinesInOrder[k][3]}
\* The board with the cells of S emptied.
cleared(b, S) == [i \in DOMAIN b |-> IF i \in S THEN null ELSE b[i]]

\* A minimax whose simulated marks alternate at every ply.
RECURSIVE refMinimax(_, _, _), refBest(_, _, _, _, _, _, _)
refBest(b, ai, cur, avail, k, bestScore, bestMove) ==
  IF k > Len(avail) THEN [score |-> bestScore, move |-> bestMove]
  ELSE LET score == refMinimax(applyMove(b, avail[k], cur), ai,
                               otherMark(cur)).score
           better == IF cur = ai THEN score > bestScore ELSE score < bestScore
       IN IF better
            THEN refBest(b, ai, cur, avail, k + 1, score, avail[k])
            ELSE refBest(b, ai, cur, avail, k + 1, bestScore, bestMove)
refMinimax(b, ai, cur) ==
  LET held == heldLines(b)
  IN IF held # {}
       THEN [score |-> IF b[LinesInOrder[firstHeld(b)][1]] = ai THEN 10 ELSE -10,
             move |-> noMove]
     ELSE IF emptySet(b) = {} THEN [score |-> 0, move |-> noMove]
     ELSE refBest(b, ai, cur, emptyCells(b), 1,
                  IF cur = ai THEN -Infinity ELSE Infinity, noMove)

AICalled == op = "getAIMove" /\ ret.ai.error = "none"

----------------------------------------------------------------------------
(* C1 .. C10 *)

\* C1: in a game from the empty board where one side always plays the move
\* of getAIMove(board, aiMark, 'optimal') and the other plays any legal
\* move, no board is reached on which calculateWinner returns the mark of
\* the opponent of aiMark.
C1_OptimalNeverLoses == calculateWinner(board) # otherMark(aiMark)

\* C2: on every non-terminal board, the move getAIMove(..., 'optimal')
\* returns is the move of the minimax whose marks alternate at every ply,
\* scoring +10 / -10 / 0, maximizing at aiMark's nodes, minimizing at the
\* others, ties to the lowest index.
C2_MatchesAlternatingMinimax ==
  (AICalled /\ difficulty = "optimal")
    => ret.ai.index = refMinimax(board, aiMark, currentMarkOf(board)).move

\* C3: on a board reached by legal alternating play where it is aiMark's
\* turn, aiMark cannot win at once and the opponent has exactly one cell
\* that completes a line, getAIMove(board, aiMark, 'optimal') returns that
\* cell.
C3_BlocksOpponentWin ==
  ( /\ ~gameOver(board)
    /\ currentMarkOf(board) = aiMark
    /\ winningCells(board, aiMark) = {}
    /\ Cardinality(winningCells(board, otherMark(aiMark))) = 1 )
    => getAIMove(board, aiMark, "optimal", 0).index
         \in winningCells(board, otherMark(aiMark))

\* C4: on every non-terminal board whose parity-derived mover is aiMark and
\* on which some empty cell completes a line for aiMark, the cell
\* getAIMove(board, aiMark, 'optimal') returns makes calculateWinner return
\* aiMark once aiMark is placed on it.
C4_TakesImmediateWin ==
  ( /\ AICalled
    /\ difficulty = "optimal"
    /\ currentMarkOf(board) = aiMark
    /\ winningCells(board, aiMark) # {} )
    => calculateWinner(applyMove(board, ret.ai.index, aiMark)) = aiMark

C4_Witness ==
  /\ AICalled
  /\ difficulty = "optimal"
  /\ currentMarkOf(board) = aiMark
  /\ winningCells(board, aiMark) # {}
  /\ winningCells(board, otherMark(aiMark)) # {}
  /\ ret.ai.index \in winningCells(board, aiMark)
  /\ ret.ai.index # emptyCells(board)[1]

\* C5: whenever getAIMove returns, for either mark and either difficulty
\* and whatever the parity of the marks on the board, the value returned is
\* an integer in 0..8 whose cell is empty in the input board.
C5_ReturnsEmptyCell ==
  AICalled => (ret.ai.index \in Cells /\ board[ret.ai.index] = null)

C5_Witness ==
  /\ AICalled
  /\ difficulty = "optimal"
  /\ currentMarkOf(board) # aiMark
  /\ ret.ai.index \in Cells
  /\ board[ret.ai.index] = null
  /\ Cardinality(emptySet(board)) >= 3

\* C6: with difficulty 'random' the indices getAIMove can return for a
\* non-terminal board are exactly the empty cells of the board: the index
\* returned is empty, every empty index is returned for some draw of the
\* random source, and the j-th empty cell is returned exactly for the draws
\* r with j/n <= r < (j+1)/n, n the number of empty cells.
C6_RandomIsAnyEmptyCell ==
  (AICalled /\ difficulty = "random") =>
    LET available == emptyCells(board)
        n == Len(available)
        draws == 0..(RandDen - 1)
        result(k) == getAIMove(board, aiMark, "random", k).index
    IN /\ ret.ai.index \in emptySet(board)
       /\ {result(k) : k \in draws} = emptySet(board)
       /\ \A j \in 1..n :
            {k \in draws : result(k) = available[j]}
              = {k \in draws : (j - 1) * RandDen <= k * n
                                 /\ k * n < j * RandDen}

C6_Witness ==
  /\ AICalled
  /\ difficulty = "random"
  /\ Cardinality(emptySet(board)) >= 3
  /\ \A i \in emptySet(board) : i <= ret.ai.index

\* C7: validateMove(B, i).valid is true exactly when B has length 9, i is
\* an integer in 0..8 and B[i] is Empty.
C7_ValidIff ==
  (op = "validateMove") =>
    ( ret.validate.valid
        <=> ( /\ length(board) = 9
              /\ IsInteger(arg)
              /\ (arg.twice \div 2) \in 0..8
              /\ board[arg.twice \div 2] = null ) )

C7_Witness ==
  /\ op = "validateMove"
  /\ ret.validate.valid
  /\ arg = Int2Idx(8)
  /\ board[0] = "X"
  /\ board[7] = "O"

\* C8: validateMove reports InvalidBoard when the board length is not 9,
\* otherwise InvalidIndex when the index is not an integer in [0,8]
\* (fractional numbers inside the range included), otherwise CellOccupied
\* when the target cell is not Empty, otherwise no reason.
C8_ReasonRule ==
  (op = "validateMove") =>
    ret.validate.reason =
      ( IF length(board) # 9 THEN "Invalid board"
        ELSE IF ~(IsInteger(arg) /\ (arg.twice \div 2) \in 0..8)
          THEN "Invalid index"
        ELSE IF board[arg.twice \div 2] # null THEN "Cell occupied"
        ELSE undefined )

\* C9: calculateWinner returns the mark of the first line, in the order
\* rows, columns, diagonal 0-4-8, diagonal 2-4-6, whose three cells hold the
\* same mark; it returns null exactly when no line is held; emptying any
\* cells outside that line leaves the result unchanged.
C9_FirstHeldLineWins ==
  (op = "calculateWinner") =>
    /\ (ret.winner = null <=> heldLines(board) = {})
    /\ heldLines(board) # {} =>
         LET k == firstHeld(board)
         IN /\ ret.winner = board[LinesInOrder[k][1]]
            /\ \A S \in SUBSET (Cells \ lineCells(k)) :
                 calculateWinner(cleared(board, S)) = ret.winner

C9_Witness ==
  /\ op = "calculateWinner"
  /\ ret.winner = "O"
  /\ heldLines(board) = {2, 3}
  /\ board[6] = "X"

\* C10: isDraw(board) is true exactly when no line is held and no cell is
\* Empty; a board is never both won and drawn.
C10_DrawIff ==
  (op = "isDraw") =>
    /\ ret.draw <=> (heldLines(board) = {} /\ emptySet(board) = {})
    /\ ~(ret.draw /\ calculateWinner(board) # null)

C10_Witness ==
  /\ op = "isDraw"
  /\ ret.draw
  /\ board = [i \in Cells |->
                <<"X", "O", "X", "X", "O", "O", "O", "X", "X">>[i + 1]]

-----------------------------------------------------------------------------
(* C11 .. C20 *)

\* C11: getAIMove returns an index exactly when the board has nine cells,
\* aiMark is X or O, the difficulty is random or optimal, and the board has
\* neither a completed line nor all cells filled; otherwise it raises and
\* returns no index, and with the first three conditions met a board with a
\* completed line or no empty cell raises "Game is already over".
InProgress(b) == heldLines(b) = {} /\ emptySet(b) # {}
WellFormedCall ==
  /\ length(board) = BoardSize
  /\ aiMark \in Marks
  /\ difficulty \in {"random", "optimal"}
C11_ReturnsIffPlayable ==
  op = "getAIMove" =>
    /\ (ret.ai.error = "none") <=> (WellFormedCall /\ InProgress(board))
    /\ ret.ai.error = "none" => ret.ai.index \in Cells
    /\ ret.ai.error # "none" => ret.ai.index = noMove
    /\ (WellFormedCall /\ ~InProgress(board))
         => ret.ai.error = "Game is already over"

C11_Witness ==
  /\ op = "getAIMove"
  /\ ret.ai.error = "Game is already over"
  /\ board = [i \in Cells |-> IF i < 3 THEN "X" ELSE null]
  /\ aiMark = "O"
  /\ difficulty = "optimal"

\* C12: no call writes to the caller's board: while getAIMove runs and after
\* it returned or threw, the array the caller passed holds the cells it held
\* at the call, every write of minimax going to an array cloneBoard made.
C12_CallerBoardUntouched ==
  op \in {"minimax", "getAIMove"} => heap[1] = board

\* minimax is three calls deep and has written to three clones.
C12_Witness ==
  /\ op = "minimax"
  /\ Len(stack) = 4
  /\ Len(heap) = 4
  /\ heap[4] # board
  /\ board = initBoard

\* C13: once the board has a winner or is a draw, no click on a square changes
\* the board or the player to move, so only Restart leaves that state; and
\* Restart from any state yields the empty board with X to move.
SquareClicked(i) == op' \in {"click", "clickDisabled"} /\ arg' = Int2Idx(i)
Restarted == op' = "restart"
count(b, m) == Cardinality({i \in DOMAIN b : b[i] = m})
C15_TurnMatchesParity ==
  rendered = render(board, xIsNext) =>
    /\ count(board, "X") - count(board, "O") \in {0, 1}
    /\ xIsNext <=> (count(board, "X") = count(board, "O"))
    /\ currentMarkOf(board) = (IF xIsNext THEN "X" ELSE "O")

\* C16: in the default mode the human plays X and the AI plays O: once the
\* thinking delay has passed after a human move that did not end the game,
\* the AI has placed its O without a further click, so a game in progress
\* holds as many O as X.
C16_AIRepliesAfterDelay ==
  (op = "advanceTimers" /\ InProgress(board)) =>
    count(board, "O") = count(board, "X")

\* C17: between the human's move and the AI's reply, that is while O is to
\* move in a game in progress, a click on any square, an empty one included,
\* places no mark and changes neither the board nor the turn.
C17_ClicksIgnoredOnAITurn ==
  [][(~xIsNext /\ InProgress(board) /\ op' \in {"click", "clickDisabled"})
       => (board' = board /\ xIsNext' = xIsNext)]_vars

\* C18: a board of a game played through the UI never holds completed lines
\* of both marks, so every completed line carries the mark calculateWinner
\* returns, whatever the order of the lines.
C18_OneWinnerAtMost ==
  \A k \in heldLines(board) :
    board[LinesInOrder[k][1]] = calculateWinner(board)

\* X completes row 0 and column 0 with one move.
C18_Witness ==
  /\ op = "click"
  /\ heldLines(board) = {1, 4}
  /\ calculateWinner(board) = "X"

\* C19: every recursive call of minimax is on a board with strictly fewer
\* empty cells than its caller's, at most 9 calls are nested below the
\* outermost one, and getAIMove with difficulty 'optimal' returns or throws
\* in the end.
emptyCount(a) == Cardinality(emptySet(heap[a]))
C19_MinimaxTerminates ==
  /\ [](\A j \in 2..Len(stack) :
          emptyCount(stack[j].board) < emptyCount(stack[j - 1].board))
  /\ [](Len(stack) <= BoardSize + 1)
  /\ <>(op = "getAIMove")

\* The deepest nesting reached: eight calls below the outermost one.
C19_Witness ==
  /\ op = "minimax"
  /\ Len(stack) = 9
  /\ board = initBoard

\* C20: when the mover by parity is aiMark, the index getAIMove returns with
\* difficulty 'optimal' is the lowest empty index among the root candidates
\* whose score, as minimax computes it, is the maximum over all root
\* candidates.
rootScores(b, ai) ==
  [i \in emptySet(b) |->
     minimax(applyMove(b, i, ai), ai, nextMark(ai, ai)).score]
C20_LowestIndexOfBestScore ==
  (AICalled /\ difficulty = "optimal" /\ currentMarkOf(board) = aiMark) =>
    LET sc == rootScores(board, aiMark)
        m == ret.ai.index
    IN /\ m \in DOMAIN sc
       /\ \A j \in DOMAIN sc : sc[j] <= sc[m]
       /\ \A j \in DOMAIN sc : sc[j] = sc[m] => m <= j

\* Cells 2 and 6 both win at once for X; cell 2 is returned.
C20_Witness ==
  /\ AICalled
  /\ aiMark = "X"
  /\ board = [i \in Cells |->
                <<"X", "X", null, "X", "O", "O", null, "O", null>>[i + 1]]
  /\ ret.ai.index = 2

\* C21: a board of nine cells that passes the check "Game is already over"
\* has an empty cell, so getAIMove never throws "No available moves", and
\* with difficulty 'optimal' the outermost minimax returns a move: the
\* fallback to available[0] is never taken.
C21_NoLegalMovesUnreachable ==
  op = "getAIMove" =>
    /\ ret.ai.error # "No available moves"
    /\ ~ret.ai.fallback
    /\ ret.ai.error = "none" => emptySet(board) # {}

\* The closest case: one empty cell left, and minimax returns it.
C21_Witness ==
  /\ AICalled
  /\ difficulty = "optimal"
  /\ aiMark = "X"
  /\ board = [i \in Cells |->
                <<"X", "O", "X", "X", "O", "O", "O", "X", null>>[i + 1]]
  /\ ret.ai.index = 8
  /\ ~ret.ai.fallback

\* C22: every game ends: between two restarts each step that changes the
\* board fills exactly one empty cell and changes no other cell, so at most
\* 9 moves are applied; a board with no empty cell is won or drawn, so a
\* board in progress has an empty cell.
MoveApplied(i) ==
  /\ board[i] = null
  /\ board'[i] \in Marks
  /\ \A j \in Cells \ {i} : board'[j] = board[j]
====
